---- MODULE Spec2Model ----
(***************************************************************************)
(* Model of src/scraper.py: main() drives one browser page through the     *)
(* project list of the registry, opens the detail view of each candidate   *)
(* and accumulates one record per candidate until 6 records are collected  *)
(* or the list is exhausted.                                               *)
(*                                                                         *)
(* The registry web site is the environment.  The variable site names the  *)
(* simulated site; the operators ListViews, NavOutcomes, ...Obs say what   *)
(* that site can show to each page operation.  Texts are sequences of      *)
(* one-character strings so that str.strip() and str.lower() are computed. *)
(***************************************************************************)
EXTENDS Integers, Sequences, FiniteSets, TLC

\* ------------------------------------------------------------------ bounds
\* Largest number of project cards a list view of the registry site shows.
MaxCards == 7
\* Poll ceiling of a field, in poll cycles (the code's 60 s and 40 s ceilings
\* at 0.5 s per cycle).
MaxPolls == 2
\* Largest number of native dialogs a run of the popups site opens.
MaxDialogs == 2

\* ------------------------------------------------------- program constants
\* while len(project_data) < 6 / if len(project_names) == 6
TargetCount == 6

\* -------------------------------------------------------------------- text
Whitespace == {" "}

RECURSIVE LStrip(_)
LStrip(s) ==
    IF s = <<>> THEN s
    ELSE IF Head(s) \in Whitespace THEN LStrip(Tail(s)) ELSE s

RECURSIVE RStrip(_)
RStrip(s) ==
    IF s = <<>> THEN s
    ELSE IF s[Len(s)] \in Whitespace THEN RStrip(SubSeq(s, 1, Len(s) - 1)) ELSE s

\* str.strip()
Strip(s) == RStrip(LStrip(s))

UpperCase == <<"A","B","C","D","E","F","G","H","I","J","K","L","M",
               "N","O","P","Q","R","S","T","U","V","W","X","Y","Z">>
LowerCase == <<"a","b","c","d","e","f","g","h","i","j","k","l","m",
               "n","o","p","q","r","s","t","u","v","w","x","y","z">>

LowerChar(c) ==
    IF \E i \in DOMAIN UpperCase : UpperCase[i] = c
    THEN LowerCase[CHOOSE i \in DOMAIN UpperCase : UpperCase[i] = c]
    ELSE c

\* str.lower()
Lower(s) == [i \in DOMAIN s |-> LowerChar(s[i])]

\* Python truthiness of a str: the empty string is falsy.
Truthy(text) == text # <<>>

\* The placeholder sentinel '--'.
Placeholder == <<"-", "-">>
\* The heading of the non-record card, compared as name.lower() != "filter".
FilterHeading == <<"f","i","l","t","e","r">>
\* Python's None for a text local that is not yet resolved.
NoneVal == <<"None">>
\* A locator whose count() is 0: the element is not in the DOM.
Absent == <<"Absent">>

\* ------------------------------------------------------- the simulated site
Alpha   == <<"A","l","p","h","a">>
Beta    == <<"B","e","t","a">>
Gamma   == <<"G","a","m","m","a">>
Delta   == <<"D","e","l","t","a">>
Epsilon == <<"E","p","s">>
Zeta    == <<"Z","e","t","a">>
Eta     == <<"E","t","a">>
Theta   == <<"T","h","e","t","a">>
Iota    == <<"I","o","t","a">>
Catalogue == <<Alpha, Beta, Gamma, Delta, Epsilon, Zeta, Eta, Theta, Iota>>

Min(a, b) == IF a < b THEN a ELSE b

\* A div.card: the texts of its h5 elements and whether it holds a
\* 'View Details' button.
Card(text) == [h5 |-> <<text>>, btn |-> TRUE]
CardNoButton(text) == [h5 |-> <<text>>, btn |-> FALSE]
CardNoHeading == [h5 |-> <<>>, btn |-> FALSE]
FilterCard == [h5 |-> << <<"F","i","l","t","e","r">> >>, btn |-> FALSE]

Padded(text) == <<" ">> \o text \o <<" ">>

\* The list view showing the first k projects of the catalogue.
Listing(k) ==
    <<FilterCard>> \o [i \in 1..Min(k, Len(Catalogue)) |-> Card(Catalogue[i])]

\* The first two projects in the other order.
ShuffledView == <<FilterCard, Card(Beta), Card(Alpha)>>
\* A card without heading, a padded heading, an empty heading and a card
\* without button.
RaggedView ==
    <<CardNoHeading, Card(Padded(Alpha)), Card(<<" ">>), CardNoButton(Beta),
      Card(Gamma)>>

RegistryViews == {Listing(k) : k \in 0..MaxCards} \cup {ShuffledView, RaggedView}

\* The list views of the end-to-end scenario, by load of the list page: the
\* initial load and the reloads for Alpha and Beta show two projects, every
\* later load shows three.
ScenarioScript ==
    << <<Card(Alpha), Card(Beta)>>, <<Card(Alpha), Card(Beta)>>,
       <<Card(Alpha), Card(Beta)>>, <<Card(Alpha), Card(Beta), Card(Gamma)>> >>

\* The simulated sites: "registry" shows any of RegistryViews at every load and
\* fully rendered detail views; "detail" lists one project whose detail view
\* renders slowly, partly or not at all; "popups" lists one project and opens
\* native dialogs; "scenario" is the end-to-end scenario.
Sites == {"registry", "detail", "popups", "scenario"}

\* Number of scripted loads of a site; later loads show what the last one shows.
ScriptLen(s) == IF s = "scenario" THEN Len(ScenarioScript) ELSE 1

\* What the list page can show after its load-th load.
ListViews(s, load) ==
    CASE s = "scenario" -> {ScenarioScript[load]}
      [] s = "detail" -> {<<FilterCard, Card(Alpha)>>}
      [] s = "popups" -> {<<Card(Alpha)>>}
      [] OTHER -> RegistryViews

\* Whether page operations of the site can raise an automation error.
Outcomes(s) == IF s = "scenario" THEN {"ok"} ELSE {"ok", "error"}

\* Outcome of the navigation started by 'View Details' of a project.
NavOutcomes(s, name) ==
    IF s = "scenario" THEN (IF name = Beta THEN {"error"} ELSE {"ok"})
    ELSE {"ok", "error"}

RegdNo == <<"R","P">>
Acme == <<"A","c","m","e">>
Bob == <<"B","o","b">>
Road == <<"R","o","a","d">>
Lane == <<"L","a","n","e">>
Gst == <<"2","1">>

\* Texts the Project Name element of a project's detail view can show.
ProjectNameTexts(s, name) ==
    IF s = "detail" THEN {Placeholder, name} ELSE {name}
\* Texts the RERA Regd. No. element can show.
RegdNoTexts(s, name) ==
    IF s = "detail" THEN {Placeholder, RegdNo \o name} ELSE {RegdNo \o name}
\* Observations of the sources of the promoter section: Absent or the
\* displayed text.  On the registry site Beta shows a blank company name and
\* Gamma is a proprietorship: its company name and registered office address
\* are not in the DOM.
CompanyObs(s, name) ==
    CASE s = "scenario" -> {Acme}
      [] s = "detail" -> {Absent, Placeholder, Padded(Placeholder), <<>>,
                          <<" ">>, Padded(Acme)}
      [] s = "registry" /\ name = Beta -> {<<" ">>}
      [] s = "registry" /\ name = Gamma -> {Absent}
      [] OTHER -> {Padded(Acme)}
PropietoryObs(s, name) ==
    CASE s = "detail" -> {Absent, Placeholder, Bob}
      [] s = "registry" /\ name = Gamma -> {Bob}
      [] OTHER -> {Absent}
RegisteredAddressObs(s, name) ==
    CASE s = "detail" -> {Absent, Placeholder, <<" ">>, Padded(Road)}
      [] s = "registry" /\ name = Gamma -> {Absent}
      [] OTHER -> {Padded(Road)}
PermanentAddressObs(s, name) ==
    CASE s = "detail" -> {Absent, Lane}
      [] s = "registry" /\ name = Gamma -> {Lane}
      [] OTHER -> {Absent}
GstObs(s, name) ==
    IF s = "detail" THEN {Absent, <<>>, <<" ">>, Placeholder, Gst} ELSE {Gst}

\* The native dialogs a page can open: the type and the message of the Dialog.
DialogTypes == {"alert", "confirm", "prompt", "beforeunload", "geolocation"}
Location == <<"l","o","c","a","t","i","o","n">>
DialogMessages ==
    {<<"U","s","e"," ","L","o","c","a","t","i","o","n","?">>,
     <<"l","o","c","a","t","i","o","n","s">>,
     <<"L","e","a","v","e","?">>}
Dialogs(s) ==
    IF s = "popups" THEN [type : DialogTypes, message : DialogMessages]
    ELSE {}
\* No dialog handled yet.
NoDialog == [type |-> "none", message |-> <<>>]

\* ------------------------------------------------------------------- state
VARIABLES
    pc,                       \* position of main()
    browser,                  \* "None", "open" or "closed"
    raised,                   \* kind of the exception raised to main's handlers
    site,                     \* the simulated web site
    target,                   \* target count of RunState
    loads,                    \* loads of the list page so far, up to ScriptLen
    project_names,            \* discovered candidates
    project_names_new,        \* names collected by the last list extension
    project_names_index,      \* cursor
    project_data,             \* accumulated records
    project_name,             \* candidate of the current attempt
    found,
    current_project_details,
    promoter_name_text,
    address_text,
    waits,                    \* poll-interval sleeps of the current field
    csv_file,                 \* projects_output.csv
    attempts,                 \* processing attempts started so far
    dialog_handler,           \* whether page.on("dialog", handle_dialog) is done
    dialog,                   \* the dialog last passed to handle_dialog
    dialog_calls,             \* the calls handle_dialog made on it
    dialog_error,             \* whether the call raised (logged by the handler)
    dialogs,                  \* dialogs handled so far
    overlay,                  \* outcome of the overlay resolver that just ran,
                              \* "none" once the step after it has started
    trail,                    \* page operations done since the initial load,
                              \* the last list extension or the last candidate
    handles,                  \* card handles main holds: "none", "fresh" (of
                              \* the page as loaded last) or "stale"
    taken_at,                 \* value of the cursor when project_name was
                              \* last assigned, -1 before
    observed,                 \* what the last poll cycle read from the page,
                              \* empty once the step after the poll has started
    ceiling_hit               \* fields of the attempt whose poll ended at its
                              \* time ceiling

vars == <<pc, browser, raised, site, target, loads, project_names,
          project_names_new, project_names_index, project_data, project_name, found,
          current_project_details, promoter_name_text, address_text, waits,
          csv_file, attempts, dialog_handler, dialog, dialog_calls,
          dialog_error, dialogs, overlay, trail, handles, taken_at, observed,
          ceiling_hit>>

polled == <<observed, ceiling_hit>>

history == <<trail, handles, taken_at>>

dialogVars == <<dialog_handler, dialog, dialog_calls, dialog_error, dialogs>>
env == <<site, target>>
runState == <<project_names, project_names_index, project_data>>
locals == <<project_names_new, project_name, found, current_project_details,
            promoter_name_text, address_text, waits>>

FieldNames == <<"Project Name", "Rera Regd. No", "Promoter Name",
                "Address of the Promoter", "GST No.">>

NoFile == [status |-> "none", header |-> <<>>, rows |-> <<>>]

InitWith(s, t) ==
    /\ pc = "launch"
    /\ browser = "None"
    /\ raised = "none"
    /\ site = s
    /\ target = t
    /\ loads = 0
    /\ project_names = <<>>
    /\ project_names_new = <<>>
    /\ project_names_index = 0
    /\ project_data = <<>>
    /\ project_name = NoneVal
    /\ found = FALSE
    /\ current_project_details = <<>>
    /\ promoter_name_text = NoneVal
    /\ address_text = NoneVal
    /\ waits = 0
    /\ csv_file = NoFile
    /\ attempts = 0
    /\ dialog_handler = FALSE
    /\ dialog = NoDialog
    /\ dialog_calls = <<>>
    /\ dialog_error = FALSE
    /\ dialogs = 0
    /\ overlay = "none"
    /\ trail = <<>>
    /\ handles = "none"
    /\ taken_at = -1
    /\ observed = <<>>
    /\ ceiling_hit = {}

Init == \E s \in {"registry", "detail", "popups"} : InitWith(s, TargetCount)

\* An exception leaves the try block of main for its except clauses.
Raise(kind) ==
    /\ pc' = "except"
    /\ raised' = kind

NextLoad == Min(loads + 1, ScriptLen(site))

\* ------------------------------------------------------------- enumeration
\* The loop over div.card collecting h5 texts: the stripped text of the first
\* h5 of each card, dropping empty names and "filter"; the initial
\* enumeration stops at the target count, the extension reads every card.
RECURSIVE CollectNames(_, _, _)
CollectNames(cards, names, capped) ==
    IF cards = <<>> THEN names
    ELSE LET card == Head(cards) IN
         IF card.h5 = <<>> THEN CollectNames(Tail(cards), names, capped)
         ELSE LET name == Strip(card.h5[1])
                  names2 == IF Truthy(name) /\ Lower(name) # FilterHeading
                            THEN Append(names, name) ELSE names
              IN IF capped /\ Len(names2) = target THEN names2
                 ELSE CollectNames(Tail(cards), names2, capped)

\* page.wait_for_selector("div.card h5", state="visible")
HeadingVisible(cards) == \E i \in DOMAIN cards : cards[i].h5 # <<>>

\* The cards the scan for project_name clicks: heading equal to the name and
\* a 'View Details' button (a matching card without button is passed over).
MatchingCards(cards, name) ==
    {i \in DOMAIN cards :
        /\ cards[i].h5 # <<>>
        /\ Strip(cards[i].h5[1]) = name
        /\ cards[i].btn}

\* ---------------------------------------------------------- dialog handler
\* sub in text, of Python.
Contains(sub, text) ==
    \E i \in 1..(Len(text) - Len(sub) + 1) :
        SubSeq(text, i, i + Len(sub) - 1) = sub

\* handle_dialog with the test of the message made without lower().
DialogCallCaseSensitive(d) ==
    IF d.type \in {"alert", "confirm", "prompt"} THEN "accept"
    ELSE IF d.type = "beforeunload" THEN "accept"
    ELSE IF Contains(Location, d.message) THEN "accept"
    ELSE "dismiss"

\* The branch handle_dialog takes: the method it calls on the dialog.
DialogCall(d) ==
    IF d.type \in {"alert", "confirm", "prompt"} THEN "accept"
    ELSE IF d.type = "beforeunload" THEN "accept"
    ELSE IF Contains(Location, Lower(d.message)) THEN "accept"
    ELSE "dismiss"

\* handle_dialog without its except clauses: an error of accept() or
\* dismiss() reaches main.
HandleDialogUnguarded ==
    /\ dialog_handler
    /\ browser = "open"
    /\ dialogs < MaxDialogs
    /\ \E d \in Dialogs(site), r \in Outcomes(site) :
        /\ dialog' = d
        /\ dialog_calls' = <<DialogCall(d)>>
        /\ dialog_error' = (r = "error")
        /\ IF r = "error" THEN Raise("Error") ELSE UNCHANGED <<pc, raised>>
    /\ dialogs' = dialogs + 1
    /\ UNCHANGED <<dialog_handler, browser, env, loads, runState, locals,
                   csv_file, attempts>>
    /\ UNCHANGED overlay
    /\ UNCHANGED history
    /\ UNCHANGED polled

\* A dialog opens while main awaits a page operation or a sleep, and
\* handle_dialog runs: one call of accept() or dismiss(), whose error the
\* except clauses of the handler log.
HandleDialog ==
    /\ dialog_handler
    /\ browser = "open"
    /\ dialogs < MaxDialogs
    /\ \E d \in Dialogs(site), r \in Outcomes(site) :
        /\ dialog' = d
        /\ dialog_calls' = <<DialogCall(d)>>
        /\ dialog_error' = (r = "error")
    /\ dialogs' = dialogs + 1
    /\ UNCHANGED <<dialog_handler, pc, browser, raised, env, loads, runState,
                   locals, csv_file, attempts>>
    /\ UNCHANGED overlay
    /\ UNCHANGED history
    /\ UNCHANGED polled

\* ------------------------------------------------------------------ set-up
\* Outcomes of chromium.launch followed by browser.new_page.
LaunchOutcomes(s) ==
    IF s = "scenario" THEN {"ok"} ELSE {"ok", "launch_error", "page_error"}

\* browser = await p.chromium.launch(...); page = await browser.new_page()
Launch ==
    /\ pc = "launch"
    /\ \E r \in LaunchOutcomes(site) :
        IF r = "ok"
        THEN /\ browser' = "open"
             /\ pc' = "navigate"
             /\ UNCHANGED raised
        ELSE /\ browser' = IF r = "page_error" THEN "open" ELSE "None"
             /\ Raise("Error")
    /\ UNCHANGED <<env, loads, runState, locals, csv_file, attempts>>
    /\ UNCHANGED dialogVars
    /\ UNCHANGED overlay
    /\ UNCHANGED history
    /\ UNCHANGED polled

\* page.on("dialog", ...); the first page.goto and the waits for the heading.
Navigate ==
    /\ pc = "navigate"
    /\ \E r \in Outcomes(site) :
        IF r = "ok"
        THEN /\ loads' = NextLoad
             /\ pc' = "overlay_initial"
             /\ UNCHANGED raised
        ELSE /\ Raise("Error")
             /\ UNCHANGED loads
    /\ dialog_handler' = TRUE
    /\ UNCHANGED <<browser, env, runState, locals, csv_file, attempts>>
    /\ UNCHANGED <<dialog, dialog_calls, dialog_error, dialogs>>
    /\ UNCHANGED overlay
    /\ trail' = IF pc' = "except" THEN trail ELSE <<"load">>
    /\ UNCHANGED handles
    /\ UNCHANGED taken_at
    /\ UNCHANGED polled

\* What the check of the SweetAlert2 'OK' button can come to: no overlay, an
\* overlay that is clicked away, or an automation error of is_visible, of
\* click or of wait_for(state='hidden').
OverlayOutcomes ==
    {"absent", "dismissed", "visible_error", "click_error", "hidden_error"}

\* The overlay resolver without its try block: an automation error reaches
\* main's handlers.
ResolveOverlayUnguarded(next) ==
    \E o \in OverlayOutcomes :
        /\ overlay' = o
        /\ IF o \in {"absent", "dismissed"}
           THEN pc' = next /\ UNCHANGED raised
           ELSE Raise("Error")

\* The overlay resolver: the try block around is_visible, click and wait_for,
\* whose except clauses log and go on to the next step.
ResolveOverlay(next) ==
    \E o \in OverlayOutcomes :
        /\ overlay' = o
        /\ pc' = next
        /\ UNCHANGED raised

\* The overlay resolver after the initial load: both except clauses swallow
\* the error.
ResolveOverlayInitial ==
    /\ pc = "overlay_initial"
    /\ ResolveOverlay("enumerate")
    /\ UNCHANGED <<browser, env, loads, runState, locals, csv_file, attempts>>
    /\ UNCHANGED dialogVars
    /\ UNCHANGED handles
    /\ trail' = Append(trail, "overlay")
    /\ UNCHANGED taken_at
    /\ UNCHANGED polled

\* The screenshot, the wait for a card heading and the collection of the
\* first project names; then project_data = [] and project_names_index = 0.
EnumerateInitial ==
    /\ pc = "enumerate"
    /\ \E r \in Outcomes(site), cards \in ListViews(site, loads) :
        IF r = "ok" /\ HeadingVisible(cards)
        THEN /\ project_names' = CollectNames(cards, <<>>, TRUE)
             /\ project_data' = <<>>
             /\ project_names_index' = 0
             /\ pc' = "loop"
             /\ UNCHANGED raised
        ELSE /\ Raise("Error")
             /\ UNCHANGED runState
    /\ UNCHANGED <<browser, env, loads, locals, csv_file, attempts>>
    /\ UNCHANGED dialogVars
    /\ overlay' = "none"
    /\ trail' = IF pc' = "except" THEN trail ELSE Append(trail, "enumerate")
    /\ handles' = IF pc' = "except" THEN handles ELSE "fresh"
    /\ UNCHANGED taken_at
    /\ UNCHANGED polled

\* LoopTest with the loop condition len(project_data) <= 6.
LoopTestInclusive ==
    /\ pc = "loop"
    /\ pc' = IF Len(project_data) <= target
             THEN (IF project_names_index >= Len(project_names)
                   THEN "extend" ELSE "take")
             ELSE "output"
    /\ UNCHANGED <<browser, raised, env, loads, runState, locals, csv_file,
                   attempts>>
    /\ UNCHANGED dialogVars
    /\ UNCHANGED overlay
    /\ UNCHANGED history
    /\ UNCHANGED polled

\* ------------------------------------------------------------ orchestrator
\* while len(project_data) < 6: / if project_names_index >= len(project_names):
LoopTest ==
    /\ pc = "loop"
    /\ pc' = IF Len(project_data) < target
             THEN (IF project_names_index >= Len(project_names)
                   THEN "extend" ELSE "take")
             ELSE "output"
    /\ UNCHANGED <<browser, raised, env, loads, runState, locals, csv_file,
                   attempts>>
    /\ UNCHANGED dialogVars
    /\ UNCHANGED overlay
    /\ UNCHANGED history
    /\ UNCHANGED polled

\* ExtendList that goes back to the loop test, instead of leaving the loop,
\* when the reloaded list has not grown.
ExtendListRetry ==
    /\ pc = "extend"
    /\ \E r \in Outcomes(site), cards \in ListViews(site, NextLoad) :
        IF r = "ok"
        THEN /\ loads' = NextLoad
             /\ UNCHANGED raised
             /\ project_names_new' = CollectNames(cards, <<>>, FALSE)
             /\ IF Len(project_names_new') <= project_names_index
                THEN /\ pc' = "loop"
                     /\ UNCHANGED project_names
                ELSE /\ project_names' = project_names \o
                            SubSeq(project_names_new', project_names_index + 1,
                                   Len(project_names_new'))
                     /\ pc' = "take"
        ELSE /\ Raise("Error")
             /\ UNCHANGED <<loads, project_names, project_names_new>>
    /\ UNCHANGED <<browser, env, project_names_index, project_data,
                   project_name, found, current_project_details,
                   promoter_name_text, address_text, waits, csv_file,
                   attempts>>
    /\ UNCHANGED dialogVars
    /\ UNCHANGED overlay
    /\ trail' = IF pc' = "except" THEN trail ELSE <<"reload", "enumerate">>
    /\ handles' = IF pc' = "except" THEN "stale" ELSE "fresh"
    /\ UNCHANGED taken_at
    /\ UNCHANGED polled

\* ExtendList that replaces the known names by the reloaded list
\* (project_names = project_names_new).
ExtendListReplace ==
    /\ pc = "extend"
    /\ \E r \in Outcomes(site), cards \in ListViews(site, NextLoad) :
        IF r = "ok"
        THEN /\ loads' = NextLoad
             /\ UNCHANGED raised
             /\ project_names_new' = CollectNames(cards, <<>>, FALSE)
             /\ IF Len(project_names_new') <= project_names_index
                THEN /\ pc' = "output"
                     /\ UNCHANGED project_names
                ELSE /\ project_names' = project_names_new'
                     /\ pc' = "take"
        ELSE /\ Raise("Error")
             /\ UNCHANGED <<loads, project_names, project_names_new>>
    /\ UNCHANGED <<browser, env, project_names_index, project_data,
                   project_name, found, current_project_details,
                   promoter_name_text, address_text, waits, csv_file,
                   attempts>>
    /\ UNCHANGED dialogVars
    /\ UNCHANGED overlay
    /\ trail' = IF pc' = "except" THEN trail ELSE <<"reload", "enumerate">>
    /\ handles' = IF pc' = "except" THEN "stale" ELSE "fresh"
    /\ UNCHANGED taken_at
    /\ UNCHANGED polled

\* The list extension: reload the list page, collect every name, stop the
\* loop if the new list is no longer than the cursor, else append the names
\* from the cursor on.
ExtendList ==
    /\ pc = "extend"
    /\ \E r \in Outcomes(site), cards \in ListViews(site, NextLoad) :
        IF r = "ok"
        THEN /\ loads' = NextLoad
             /\ UNCHANGED raised
             /\ project_names_new' = CollectNames(cards, <<>>, FALSE)
             /\ IF Len(project_names_new') <= project_names_index
                THEN /\ pc' = "output"
                     /\ UNCHANGED project_names
                ELSE /\ project_names' = project_names \o
                            SubSeq(project_names_new', project_names_index + 1,
                                   Len(project_names_new'))
                     /\ pc' = "take"
        ELSE /\ Raise("Error")
             /\ UNCHANGED <<loads, project_names, project_names_new>>
    /\ UNCHANGED <<browser, env, project_names_index, project_data,
                   project_name, found, current_project_details,
                   promoter_name_text, address_text, waits, csv_file,
                   attempts>>
    /\ UNCHANGED dialogVars
    /\ UNCHANGED overlay
    /\ trail' = IF pc' = "except" THEN trail ELSE <<"reload", "enumerate">>
    /\ handles' = IF pc' = "except" THEN "stale" ELSE "fresh"
    /\ UNCHANGED taken_at
    /\ UNCHANGED polled

\* project_name = project_names[project_names_index]; an index past the end
\* of the list raises IndexError.  project_names_new is dead from here on (the
\* next extension assigns it before reading it) and is put back to empty.
TakeCandidate ==
    /\ pc = "take"
    /\ IF project_names_index + 1 \in DOMAIN project_names
       THEN /\ project_name' = project_names[project_names_index + 1]
            /\ attempts' = attempts + 1
            /\ pc' = "reload"
            /\ UNCHANGED raised
       ELSE /\ Raise("IndexError")
            /\ UNCHANGED <<project_name, attempts>>
    /\ project_names_new' = <<>>
    /\ UNCHANGED <<browser, env, loads, runState, found,
                   current_project_details, promoter_name_text, address_text,
                   waits, csv_file>>
    /\ UNCHANGED dialogVars
    /\ UNCHANGED overlay
    /\ UNCHANGED handles
    /\ trail' = <<>>
    /\ taken_at' = IF pc' = "except" THEN taken_at ELSE project_names_index
    /\ UNCHANGED polled

\* ------------------------------------------------------- record navigator
\* Reload the project list page for a fresh DOM before clicking.
ReloadList ==
    /\ pc = "reload"
    /\ \E r \in Outcomes(site) :
        IF r = "ok"
        THEN /\ loads' = NextLoad
             /\ pc' = "overlay_reload"
             /\ UNCHANGED raised
        ELSE /\ Raise("Error")
             /\ UNCHANGED loads
    /\ UNCHANGED <<browser, env, runState, locals, csv_file, attempts>>
    /\ UNCHANGED dialogVars
    /\ UNCHANGED overlay
    /\ trail' = IF pc' = "except" THEN trail ELSE <<"reload">>
    /\ handles' = "stale"
    /\ UNCHANGED taken_at
    /\ UNCHANGED polled

\* The overlay resolver after the reload (except Exception swallows).
ResolveOverlayReload ==
    /\ pc = "overlay_reload"
    /\ ResolveOverlay("scan")
    /\ UNCHANGED <<browser, env, loads, runState, locals, csv_file, attempts>>
    /\ UNCHANGED dialogVars
    /\ UNCHANGED handles
    /\ trail' = Append(trail, "overlay")
    /\ UNCHANGED taken_at
    /\ UNCHANGED polled

\* The scan made over the card handles main already holds, without locating
\* the cards of the reloaded page.
ScanCardsCached ==
    /\ pc = "scan"
    /\ \E r \in Outcomes(site), cards \in ListViews(site, loads) :
        IF r = "ok"
        THEN /\ found' = FALSE
             /\ pc' = IF MatchingCards(cards, project_name) # {}
                      THEN "click" ELSE "advance"
             /\ UNCHANGED raised
        ELSE /\ Raise("Error")
             /\ UNCHANGED found
    /\ UNCHANGED <<browser, env, loads, runState, project_names_new, project_name,
                   current_project_details, promoter_name_text, address_text,
                   waits, csv_file, attempts>>
    /\ UNCHANGED dialogVars
    /\ overlay' = "none"
    /\ UNCHANGED handles
    /\ trail' = IF pc' = "except" THEN trail ELSE Append(trail, "scan")
    /\ UNCHANGED taken_at
    /\ UNCHANGED polled

\* The waits for the heading, then the scan of the freshly located cards for
\* the card of project_name; found = False.
ScanCards ==
    /\ pc = "scan"
    /\ \E r \in Outcomes(site), cards \in ListViews(site, loads) :
        IF r = "ok"
        THEN /\ found' = FALSE
             /\ pc' = IF MatchingCards(cards, project_name) # {}
                      THEN "click" ELSE "advance"
             /\ UNCHANGED raised
        ELSE /\ Raise("Error")
             /\ UNCHANGED found
    /\ UNCHANGED <<browser, env, loads, runState, project_names_new, project_name,
                   current_project_details, promoter_name_text, address_text,
                   waits, csv_file, attempts>>
    /\ UNCHANGED dialogVars
    /\ overlay' = "none"
    /\ handles' = IF pc' = "except" THEN handles ELSE "fresh"
    /\ trail' = IF pc' = "except" THEN trail ELSE Append(trail, "scan")
    /\ UNCHANGED taken_at
    /\ UNCHANGED polled

\* async with page.expect_navigation(): await btn.click(); on an exception
\* the cursor is advanced, found is set and the scan loop is left.
ClickViewDetails ==
    /\ pc = "click"
    /\ \E r \in NavOutcomes(site, project_name) :
        IF r = "ok"
        THEN /\ pc' = "overlay_detail"
             /\ UNCHANGED <<project_names_index, found>>
        ELSE /\ project_names_index' = project_names_index + 1
             /\ found' = TRUE
             /\ pc' = "advance"
    /\ UNCHANGED <<browser, raised, env, loads, project_names, project_names_new, project_data,
                   project_name, current_project_details, promoter_name_text,
                   address_text, waits, csv_file, attempts>>
    /\ UNCHANGED dialogVars
    /\ UNCHANGED overlay
    /\ trail' = Append(trail, IF pc' = "advance" THEN "nav_error" ELSE "click")
    /\ handles' = IF pc' = "advance" THEN handles ELSE "stale"
    /\ UNCHANGED taken_at
    /\ UNCHANGED polled

\* The overlay resolver on the detail page (except Exception swallows).
ResolveOverlayDetail ==
    /\ pc = "overlay_detail"
    /\ ResolveOverlay("wait_project_name")
    /\ UNCHANGED <<browser, env, loads, runState, locals, csv_file, attempts>>
    /\ UNCHANGED dialogVars
    /\ UNCHANGED handles
    /\ trail' = Append(trail, "overlay")
    /\ UNCHANGED taken_at
    /\ UNCHANGED polled

\* --------------------------------------------------------- field extractor
\* current_project_details = {}; project_name_locator.wait_for(visible).
WaitProjectName ==
    /\ pc = "wait_project_name"
    /\ \E r \in Outcomes(site) :
        IF r = "ok"
        THEN /\ current_project_details' = <<>>
             /\ waits' = 0
             /\ pc' = "poll_project_name"
             /\ UNCHANGED raised
        ELSE /\ Raise("Error")
             /\ UNCHANGED <<current_project_details, waits>>
    /\ UNCHANGED <<browser, env, loads, runState, project_names_new, project_name, found,
                   promoter_name_text, address_text, csv_file, attempts>>
    /\ UNCHANGED dialogVars
    /\ overlay' = "none"
    /\ UNCHANGED handles
    /\ trail' = IF pc' = "except" THEN trail ELSE Append(trail, "extract")
    /\ UNCHANGED taken_at
    /\ observed' = <<>>
    /\ ceiling_hit' = {}

\* The poll as a loop that sleeps before its first test.
PollSingleSleepFirst(texts, key, next) ==
    \E text \in texts :
        IF waits = 0 \/ (text = Placeholder /\ waits < MaxPolls)
        THEN /\ waits' = waits + 1
             /\ observed' = <<text>>
             /\ UNCHANGED <<pc, current_project_details, ceiling_hit>>
        ELSE \E final \in texts :
             /\ current_project_details' =
                    current_project_details @@ (key :> final)
             /\ observed' = <<text, final>>
             /\ ceiling_hit' = IF text = Placeholder
                               THEN ceiling_hit \cup {key} ELSE ceiling_hit
             /\ waits' = 0
             /\ pc' = next

\* One test of: while text_content() == '--' and elapsed < 60: sleep(0.5);
\* when the loop is left the text is read again and stored under key.
PollSingle(texts, key, next) ==
    \E text \in texts :
        IF text = Placeholder /\ waits < MaxPolls
        THEN /\ waits' = waits + 1
             /\ observed' = <<text>>
             /\ UNCHANGED <<pc, current_project_details, ceiling_hit>>
        ELSE \E final \in texts :
             /\ current_project_details' =
                    current_project_details @@ (key :> final)
             /\ observed' = <<text, final>>
             /\ ceiling_hit' = IF text = Placeholder
                               THEN ceiling_hit \cup {key} ELSE ceiling_hit
             /\ waits' = 0
             /\ pc' = next

PollProjectName ==
    /\ pc = "poll_project_name"
    /\ PollSingle(ProjectNameTexts(site, project_name), "Project Name",
                  "wait_rera_regd_no")
    /\ UNCHANGED <<browser, raised, env, loads, runState, project_names_new, project_name, found,
                   promoter_name_text, address_text, csv_file, attempts>>
    /\ UNCHANGED dialogVars
    /\ UNCHANGED overlay
    /\ UNCHANGED history

\* rera_regd_no_locator.wait_for(visible)
WaitReraRegdNo ==
    /\ pc = "wait_rera_regd_no"
    /\ \E r \in Outcomes(site) :
        IF r = "ok"
        THEN /\ pc' = "poll_rera_regd_no"
             /\ UNCHANGED raised
        ELSE Raise("Error")
    /\ UNCHANGED <<browser, env, loads, runState, locals, csv_file, attempts>>
    /\ UNCHANGED dialogVars
    /\ UNCHANGED overlay
    /\ UNCHANGED history
    /\ observed' = <<>>
    /\ UNCHANGED ceiling_hit

PollReraRegdNo ==
    /\ pc = "poll_rera_regd_no"
    /\ PollSingle(RegdNoTexts(site, project_name), "Rera Regd. No",
                  "click_promoter_tab")
    /\ UNCHANGED <<browser, raised, env, loads, runState, project_names_new, project_name, found,
                   promoter_name_text, address_text, csv_file, attempts>>
    /\ UNCHANGED dialogVars
    /\ UNCHANGED overlay
    /\ UNCHANGED history

\* promoter_details_tab.click(), then the wait for the spinner to hide,
\* whose failure is passed over.
ClickPromoterTab ==
    /\ pc = "click_promoter_tab"
    /\ \E r \in Outcomes(site) :
        IF r = "ok"
        THEN /\ pc' = "wait_promoter_card"
             /\ UNCHANGED raised
        ELSE Raise("Error")
    /\ UNCHANGED <<browser, env, loads, runState, locals, csv_file, attempts>>
    /\ UNCHANGED dialogVars
    /\ UNCHANGED overlay
    /\ UNCHANGED history
    /\ observed' = <<>>
    /\ UNCHANGED ceiling_hit

\* promoter_card_body_locator.wait_for(visible), the HTML snapshot, and
\* promoter_name_text = None.
WaitPromoterCard ==
    /\ pc = "wait_promoter_card"
    /\ \E r \in Outcomes(site) :
        IF r = "ok"
        THEN /\ promoter_name_text' = NoneVal
             /\ waits' = 0
             /\ pc' = "poll_promoter_name"
             /\ UNCHANGED raised
        ELSE /\ Raise("Error")
             /\ UNCHANGED <<promoter_name_text, waits>>
    /\ UNCHANGED <<browser, env, loads, runState, project_names_new, project_name, found,
                   current_project_details, address_text, csv_file, attempts>>
    /\ UNCHANGED dialogVars
    /\ UNCHANGED overlay
    /\ UNCHANGED history
    /\ UNCHANGED polled

\* A source that is in the DOM with a non-empty text that is not '--' after
\* stripping.
Qualifies(obs) == obs # Absent /\ Truthy(obs) /\ Strip(obs) # Placeholder

\* The two-source poll with the secondary source read before the primary.
ResolveSourcesSecondFirst(first, second, first2, second2, ceiling) ==
    IF Qualifies(second) THEN second
    ELSE IF Qualifies(first) THEN first
    ELSE IF first2 = Absent /\ second2 = Absent THEN Placeholder
    ELSE IF ceiling THEN Placeholder
    ELSE NoneVal

\* One cycle of the two-source poll: first and second are the observations of
\* the primary and the secondary source, first2 and second2 the renewed
\* count() of both; the result is the resolved text, or None to sleep and poll
\* again.
ResolveSources(first, second, first2, second2, ceiling) ==
    IF Qualifies(first) THEN first
    ELSE IF Qualifies(second) THEN second
    ELSE IF first2 = Absent /\ second2 = Absent THEN Placeholder
    ELSE IF ceiling THEN Placeholder
    ELSE NoneVal

\* Whether the cycle ends the poll by its time ceiling.
EndsAtCeiling(first, second, first2, second2, ceiling) ==
    /\ ~Qualifies(first)
    /\ ~Qualifies(second)
    /\ ~(first2 = Absent /\ second2 = Absent)
    /\ ceiling

PollPromoterName ==
    /\ pc = "poll_promoter_name"
    /\ \E first, first2 \in CompanyObs(site, project_name),
          second, second2 \in PropietoryObs(site, project_name) :
        LET text == ResolveSources(first, second, first2, second2,
                                   waits >= MaxPolls) IN
        /\ observed' = <<first, second, first2, second2>>
        /\ ceiling_hit' =
               IF EndsAtCeiling(first, second, first2, second2,
                                waits >= MaxPolls)
               THEN ceiling_hit \cup {"Promoter Name"} ELSE ceiling_hit
        /\ IF text = NoneVal
           THEN /\ waits' = waits + 1
                /\ UNCHANGED <<pc, promoter_name_text, current_project_details,
                               address_text>>
           ELSE /\ promoter_name_text' = text
                /\ current_project_details' =
                       current_project_details @@ ("Promoter Name" :> text)
                /\ address_text' = NoneVal
                /\ waits' = 0
                /\ pc' = "poll_address"
    /\ UNCHANGED <<browser, raised, env, loads, runState, project_names_new, project_name, found,
                   csv_file, attempts>>
    /\ UNCHANGED dialogVars
    /\ UNCHANGED overlay
    /\ UNCHANGED history

PollAddress ==
    /\ pc = "poll_address"
    /\ \E first, first2 \in RegisteredAddressObs(site, project_name),
          second, second2 \in PermanentAddressObs(site, project_name) :
        LET text == ResolveSources(first, second, first2, second2,
                                   waits >= MaxPolls) IN
        /\ observed' = <<first, second, first2, second2>>
        /\ ceiling_hit' =
               IF EndsAtCeiling(first, second, first2, second2,
                                waits >= MaxPolls)
               THEN ceiling_hit \cup {"Address of the Promoter"}
               ELSE ceiling_hit
        /\ IF text = NoneVal
           THEN /\ waits' = waits + 1
                /\ UNCHANGED <<pc, address_text, current_project_details>>
           ELSE /\ address_text' = text
                /\ current_project_details' =
                       current_project_details
                           @@ ("Address of the Promoter" :> text)
                /\ waits' = 0
                /\ pc' = "poll_gst_no"
    /\ UNCHANGED <<browser, raised, env, loads, runState, project_names_new, project_name, found,
                   promoter_name_text, csv_file, attempts>>
    /\ UNCHANGED dialogVars
    /\ UNCHANGED overlay
    /\ UNCHANGED history

\* The GST No. poll with a ceiling that raises a timeout error.
PollGstNoRaising ==
    /\ pc = "poll_gst_no"
    /\ \E obs \in GstObs(site, project_name) :
        /\ observed' = <<obs>>
        /\ IF obs # Absent /\ Truthy(obs) /\ Strip(obs) # <<>>
           THEN /\ current_project_details' =
                       current_project_details @@ ("GST No." :> obs)
                /\ waits' = 0
                /\ pc' = "validate"
                /\ UNCHANGED <<raised, ceiling_hit>>
           ELSE IF waits >= MaxPolls
           THEN /\ Raise("Error")
                /\ ceiling_hit' = ceiling_hit \cup {"GST No."}
                /\ UNCHANGED <<waits, current_project_details>>
           ELSE /\ waits' = waits + 1
                /\ UNCHANGED <<pc, raised, current_project_details,
                               ceiling_hit>>
    /\ UNCHANGED <<browser, env, loads, runState, project_names_new, project_name, found,
                   promoter_name_text, address_text, csv_file, attempts>>
    /\ UNCHANGED dialogVars
    /\ UNCHANGED overlay
    /\ UNCHANGED history

\* One cycle of the GST No. poll: a present, non-blank text is taken; at the
\* ceiling the default '--' stays.
PollGstNo ==
    /\ pc = "poll_gst_no"
    /\ \E obs \in GstObs(site, project_name) :
        /\ observed' = <<obs>>
        /\ IF obs # Absent /\ Truthy(obs) /\ Strip(obs) # <<>>
           THEN /\ current_project_details' =
                       current_project_details @@ ("GST No." :> obs)
                /\ waits' = 0
                /\ pc' = "validate"
                /\ UNCHANGED ceiling_hit
           ELSE IF waits >= MaxPolls
           THEN /\ current_project_details' =
                       current_project_details @@ ("GST No." :> Placeholder)
                /\ ceiling_hit' = ceiling_hit \cup {"GST No."}
                /\ waits' = 0
                /\ pc' = "validate"
           ELSE /\ waits' = waits + 1
                /\ UNCHANGED <<pc, current_project_details, ceiling_hit>>
    /\ UNCHANGED <<browser, raised, env, loads, runState, project_names_new, project_name, found,
                   promoter_name_text, address_text, csv_file, attempts>>
    /\ UNCHANGED dialogVars
    /\ UNCHANGED overlay
    /\ UNCHANGED history

\* x.strip() if x else "--"
StripOrPlaceholder(text) ==
    IF text # NoneVal /\ Truthy(text) THEN Strip(text) ELSE Placeholder

\* Validate testing the unstripped texts (if not promoter_name_text or not
\* address_text) while storing the stripped ones.
ValidateUnstripped ==
    /\ pc = "validate"
    /\ LET promoter_name == StripOrPlaceholder(promoter_name_text)
           address == StripOrPlaceholder(address_text)
       IN IF ~Truthy(promoter_name_text) \/ ~Truthy(address_text)
          THEN UNCHANGED <<project_data, current_project_details>>
          ELSE LET details ==
                       [current_project_details EXCEPT
                           !["Promoter Name"] = promoter_name,
                           !["Address of the Promoter"] = address]
               IN /\ current_project_details' = details
                  /\ project_data' = Append(project_data, details)
    /\ found' = TRUE
    /\ pc' = "advance"
    /\ UNCHANGED <<browser, raised, env, loads, project_names,
                   project_names_new, project_names_index, project_name,
                   promoter_name_text, address_text, waits, csv_file,
                   attempts>>
    /\ UNCHANGED dialogVars
    /\ UNCHANGED overlay
    /\ UNCHANGED history
    /\ observed' = <<>>
    /\ UNCHANGED ceiling_hit

\* The completeness check counting the sentinel '--' as blank.
ValidatePlaceholderBlank ==
    /\ pc = "validate"
    /\ LET promoter_name == StripOrPlaceholder(promoter_name_text)
           address == StripOrPlaceholder(address_text)
       IN IF \/ promoter_name \in {<<>>, Placeholder}
             \/ address \in {<<>>, Placeholder}
          THEN UNCHANGED <<project_data, current_project_details>>
          ELSE LET details ==
                       [current_project_details EXCEPT
                           !["Promoter Name"] = promoter_name,
                           !["Address of the Promoter"] = address]
               IN /\ current_project_details' = details
                  /\ project_data' = Append(project_data, details)
    /\ found' = TRUE
    /\ pc' = "advance"
    /\ UNCHANGED <<browser, raised, env, loads, project_names, project_names_new,
                   project_names_index, project_name, promoter_name_text,
                   address_text, waits, csv_file, attempts>>
    /\ UNCHANGED dialogVars
    /\ UNCHANGED overlay
    /\ UNCHANGED history
    /\ observed' = <<>>
    /\ UNCHANGED ceiling_hit

\* The completeness check: a blank Promoter Name or Address skips the
\* project, otherwise the stripped values are stored and the record is
\* appended; found = True and the scan loop is left.
Validate ==
    /\ pc = "validate"
    /\ LET promoter_name == StripOrPlaceholder(promoter_name_text)
           address == StripOrPlaceholder(address_text)
       IN IF ~Truthy(promoter_name) \/ ~Truthy(address)
          THEN UNCHANGED <<project_data, current_project_details>>
          ELSE LET details ==
                       [current_project_details EXCEPT
                           !["Promoter Name"] = promoter_name,
                           !["Address of the Promoter"] = address]
               IN /\ current_project_details' = details
                  /\ project_data' = Append(project_data, details)
    /\ found' = TRUE
    /\ pc' = "advance"
    /\ UNCHANGED <<browser, raised, env, loads, project_names, project_names_new,
                   project_names_index, project_name, promoter_name_text,
                   address_text, waits, csv_file, attempts>>
    /\ UNCHANGED dialogVars
    /\ UNCHANGED overlay
    /\ UNCHANGED history
    /\ observed' = <<>>
    /\ UNCHANGED ceiling_hit

\* The cursor advanced for a found candidate only: a candidate that was not
\* found is tried again.
AdvanceCursorIfFound ==
    /\ pc = "advance"
    /\ project_names_index' =
           IF found THEN project_names_index + 1 ELSE project_names_index
    /\ project_name' = NoneVal
    /\ found' = FALSE
    /\ current_project_details' = <<>>
    /\ promoter_name_text' = NoneVal
    /\ address_text' = NoneVal
    /\ waits' = 0
    /\ pc' = "loop"
    /\ UNCHANGED <<browser, raised, env, loads, project_names, project_names_new, project_data,
                   csv_file, attempts>>
    /\ UNCHANGED dialogVars
    /\ UNCHANGED overlay
    /\ trail' = <<>>
    /\ handles' = "none"
    /\ UNCHANGED taken_at
    /\ observed' = <<>>
    /\ ceiling_hit' = {}

\* if not found: (warning); project_names_index += 1.  The locals of the
\* attempt are dead from here on (each is assigned again before it is read)
\* and are put back to their initial values.
AdvanceCursor ==
    /\ pc = "advance"
    /\ project_names_index' = project_names_index + 1
    /\ project_name' = NoneVal
    /\ found' = FALSE
    /\ current_project_details' = <<>>
    /\ promoter_name_text' = NoneVal
    /\ address_text' = NoneVal
    /\ waits' = 0
    /\ pc' = "loop"
    /\ UNCHANGED <<browser, raised, env, loads, project_names, project_names_new, project_data,
                   csv_file, attempts>>
    /\ UNCHANGED dialogVars
    /\ UNCHANGED overlay
    /\ trail' = <<>>
    /\ handles' = "none"
    /\ UNCHANGED taken_at
    /\ observed' = <<>>
    /\ ceiling_hit' = {}

\* ------------------------------------------------------------------ output
\* A csv row: the values of a record in the order of the field names.
RowOf(record) == [i \in DOMAIN FieldNames |-> record[FieldNames[i]]]

\* The csv is written if project_data is not empty, else "No data to write to
\* CSV." is logged; then the scratch files are deleted.  project_names_new is
\* dead after the loop and is put back to empty.
WriteOutput ==
    /\ pc = "output"
    /\ \E r \in Outcomes(site) :
        IF r = "ok"
        THEN /\ csv_file' =
                    IF project_data # <<>>
                    THEN [status |-> "written", header |-> FieldNames,
                          rows |-> [i \in DOMAIN project_data |->
                                        RowOf(project_data[i])]]
                    ELSE [NoFile EXCEPT !.status = "no data"]
             /\ pc' = "finally"
             /\ UNCHANGED raised
        ELSE /\ Raise("Exception")
             /\ UNCHANGED csv_file
    /\ project_names_new' = <<>>
    /\ UNCHANGED <<browser, env, loads, runState, project_name, found,
                   current_project_details, promoter_name_text, address_text,
                   waits, attempts>>
    /\ UNCHANGED dialogVars
    /\ UNCHANGED overlay
    /\ UNCHANGED history
    /\ UNCHANGED polled

\* except Error / except Exception: the error is logged.
ExceptHandler ==
    /\ pc = "except"
    /\ pc' = "finally"
    /\ UNCHANGED <<browser, raised, env, loads, runState, locals, csv_file,
                   attempts>>
    /\ UNCHANGED dialogVars
    /\ UNCHANGED overlay
    /\ UNCHANGED history
    /\ UNCHANGED polled

\* The browser closed at the end of the try block only: an exit through an
\* except clause leaves it open.
FinallyNoClose ==
    /\ pc = "finally"
    /\ browser' = IF browser = "open" /\ raised = "none" THEN "closed"
                  ELSE browser
    /\ pc' = "done"
    /\ UNCHANGED <<raised, env, loads, runState, locals, csv_file, attempts>>
    /\ UNCHANGED dialogVars
    /\ UNCHANGED overlay
    /\ UNCHANGED history
    /\ UNCHANGED polled

\* finally: if browser: await browser.close()
Finally ==
    /\ pc = "finally"
    /\ browser' = IF browser = "open" THEN "closed" ELSE browser
    /\ pc' = "done"
    /\ UNCHANGED <<raised, env, loads, runState, locals, csv_file, attempts>>
    /\ UNCHANGED dialogVars
    /\ UNCHANGED overlay
    /\ UNCHANGED history
    /\ UNCHANGED polled

Next ==
    \/ Launch
    \/ Navigate
    \/ ResolveOverlayInitial
    \/ EnumerateInitial
    \/ LoopTest
    \/ ExtendList
    \/ TakeCandidate
    \/ ReloadList
    \/ ResolveOverlayReload
    \/ ScanCards
    \/ ClickViewDetails
    \/ ResolveOverlayDetail
    \/ WaitProjectName
    \/ PollProjectName
    \/ WaitReraRegdNo
    \/ PollReraRegdNo
    \/ ClickPromoterTab
    \/ WaitPromoterCard
    \/ PollPromoterName
    \/ PollAddress
    \/ PollGstNo
    \/ Validate
    \/ AdvanceCursor
    \/ WriteOutput
    \/ ExceptHandler
    \/ Finally
    \/ HandleDialog

Spec == Init /\ [][Next]_vars

\* The run of the end-to-end scenario: the target count is the scenario's 2;
\* the site is any of the simulated sites.
ScenarioInit == \E s \in Sites : InitWith(s, 2)

ScenarioSpec == ScenarioInit /\ [][Next]_vars

\* Every page operation returns: a step that can be taken is taken.
LiveSpec == Init /\ [][Next]_vars /\ WF_vars(Next)

\* ================================================================== claims

\* C1: in every reachable state the number of accumulated records
\* (project_data) is at most the target count, 6.
C1_RecordsAtMostTarget == Len(project_data) <= TargetCount

\* The target is reached in a run whose candidate list was extended.
C1_TargetReachedAfterExtension ==
    /\ Len(project_data) = TargetCount
    /\ Len(project_names) > TargetCount

\* C2: every processing attempt advances the cursor by exactly one, so that
\* whenever control is back at the loop test the cursor equals the number of
\* processing attempts made, and no candidate below the cursor was skipped.
C2_CursorAdvancesOncePerAttempt ==
    pc = "loop" => project_names_index = attempts

\* Both mandatory promoter fields of every accumulated record are non-blank.
RecordsNonBlank ==
    \A i \in DOMAIN project_data :
        /\ Strip(project_data[i]["Promoter Name"]) # <<>>
        /\ Strip(project_data[i]["Address of the Promoter"]) # <<>>

\* The completeness check is about to run on a blank Promoter Name or Address.
BlankAtValidate ==
    /\ pc = "validate"
    /\ pc' # "validate"
    /\ (Strip(promoter_name_text) = <<>> \/ Strip(address_text) = <<>>)

\* C3: every accumulated record has a Promoter Name and an Address that are
\* non-empty after stripping, and a candidate whose resolved Promoter Name or
\* Address is empty or whitespace-only is dropped: nothing is appended and
\* control goes on to the cursor advance.
C3_CompleteRecordsOnly ==
    /\ [](RecordsNonBlank)
    /\ [][BlankAtValidate => (project_data' = project_data /\ pc' = "advance")]_vars

\* A candidate with a whitespace-only Promoter Name was dropped after an
\* earlier candidate had been accumulated.
C3_BlankDropped ==
    /\ pc = "advance"
    /\ found
    /\ promoter_name_text = <<" ">>
    /\ Len(project_data) = 1

\* The places of the field extractor named by C4: the waits for the Project
\* Name and RERA Regd. No. elements, the click on the 'Promoter Details' tab
\* and the wait for the promoter section.
ExtractorErrorPoints ==
    {"wait_project_name", "wait_rera_regd_no", "click_promoter_tab",
     "wait_promoter_card"}

\* C4: an automation error raised at one of the extractor's error points is
\* handled there: the step never leaves for main's except clauses, and the
\* accumulated records are kept.
C4_ExtractorErrorContained ==
    [][(pc \in ExtractorErrorPoints)
         => (pc' # "except" /\ project_data' = project_data)]_vars

\* The output the run owes for the records it accumulated.
OutputOf(records) ==
    IF records # <<>>
    THEN [status |-> "written", header |-> FieldNames,
          rows |-> [i \in DOMAIN records |-> RowOf(records[i])]]
    ELSE [NoFile EXCEPT !.status = "no data"]

\* C5: a run that ends after it started processing candidates has reached
\* the output step: the table holds every accumulated record, or "no data to
\* write" was reported if there is none.
C5_OutputAlwaysReached ==
    (pc = "done" /\ attempts >= 1) => csv_file = OutputOf(project_data)

\* The record of a project of the scenario site.
ScenarioRecord(name) ==
    ("Project Name" :> name) @@ ("Rera Regd. No" :> RegdNo \o name)
        @@ ("Promoter Name" :> Acme) @@ ("Address of the Promoter" :> Road)
        @@ ("GST No." :> Gst)

\* C6: the end-to-end scenario (target 2, list [Alpha, Beta], Beta's detail
\* navigation failing, the list then showing Gamma too) ends with the
\* candidates [Alpha, Beta, Gamma], the records of Alpha and Gamma in that
\* order and an output table of exactly those two rows.
C6_EndToEndScenario ==
    (site = "scenario" /\ pc = "done")
        => /\ project_names = <<Alpha, Beta, Gamma>>
           /\ project_data = <<ScenarioRecord(Alpha), ScenarioRecord(Gamma)>>
           /\ csv_file = OutputOf(<<ScenarioRecord(Alpha),
                                    ScenarioRecord(Gamma)>>)

\* A list extension that finds the reloaded list no longer than the known one.
NoGrowthExtension ==
    /\ pc = "extend"
    /\ pc' \notin {"extend", "except"}
    /\ Len(project_names_new') <= Len(project_names)

\* C7: every run eventually ends, and a list extension that finds the list
\* not grown leaves the loop for the output step at once.
C7_Termination ==
    /\ <>(pc = "done")
    /\ [][NoGrowthExtension => (pc' = "output" /\ project_names' = project_names)]_vars

\* A run ended by exhaustion: no error, fewer records than the target, and
\* the partial result written.
C7_EndedByExhaustion ==
    /\ pc = "done"
    /\ raised = "none"
    /\ Len(project_data) \in 1..(target - 1)
    /\ csv_file.status = "written"

\* The extension step decided and sliced by the number of known candidates.
ExtendsFromExistingCount ==
    LET existingCount == Len(project_names)
        new == project_names_new'
    IN IF Len(new) <= existingCount
       THEN pc' = "output" /\ project_names' = project_names
       ELSE /\ pc' = "take"
            /\ project_names' =
                  project_names \o SubSeq(new, existingCount + 1, Len(new))

\* C8: a list extension reports exhaustion exactly when the re-enumerated
\* list has no entries beyond the number of known candidates, and otherwise
\* appends exactly the re-enumerated entries from that position on and goes
\* on to process them.
C8_ExtensionByExistingCount ==
    [][(pc = "extend" /\ pc' \notin {"extend", "except"})
           => ExtendsFromExistingCount]_vars

IsPrefix(a, b) == Len(a) <= Len(b) /\ SubSeq(b, 1, Len(a)) = a

\* C9: the candidate list is append-only: every step leaves the list it
\* found as a prefix of the list it leaves.
C9_AppendOnly == [][IsPrefix(project_names, project_names')]_vars

\* The list [Alpha] was extended from a reload that showed [Beta, Alpha].
C9_ExtendedFromReorderedView ==
    /\ pc = "take"
    /\ project_names_new = <<Beta, Alpha>>
    /\ project_names = <<Alpha, Alpha>>

\* C10: no run ends with the browser still open.
C10_BrowserClosedAtExit == pc = "done" => browser # "open"

\* A run that ended through an except clause, after the loop had accumulated
\* a record, with the browser closed.
C10_ClosedAfterError ==
    /\ pc = "done"
    /\ raised # "none"
    /\ project_data # <<>>
    /\ browser = "closed"

\* The messages that hold the word location in any mix of cases.
LocationMessages ==
    {m \in DialogMessages :
        \E i \in 1..Len(m), j \in 1..Len(m) :
            Lower(SubSeq(m, i, j)) = Location}

\* C11: the handler calls exactly one of accept and dismiss on a dialog:
\* accept for an alert, confirm, prompt or beforeunload dialog whatever its
\* message, and for a dialog of another type accept exactly when its message
\* holds 'location' in any mix of cases, dismiss otherwise.
C11_DialogDecision ==
    dialog # NoDialog =>
        /\ Len(dialog_calls) = 1
        /\ dialog_calls[1] \in {"accept", "dismiss"}
        /\ dialog.type \in {"alert", "confirm", "prompt", "beforeunload"}
               => dialog_calls[1] = "accept"
        /\ dialog.type \notin {"alert", "confirm", "prompt", "beforeunload"}
               => (dialog_calls[1] = "accept"
                      <=> dialog.message \in LocationMessages)

\* A dialog of another type whose message holds 'Location' with a capital
\* was accepted.
C11_CapitalLocationAccepted ==
    /\ dialog.type = "geolocation"
    /\ dialog.message = <<"U","s","e"," ","L","o","c","a","t","i","o","n","?">>
    /\ dialog_calls = <<"accept">>

\* C20: whenever the dialog handler runs, also when its accept or dismiss
\* raises, main stays where it is with no exception raised to it, the browser
\* stays open, and the cursor, the candidate list and the accumulated records
\* are unchanged.
C20_DialogHandlerContained ==
    [][(dialogs' # dialogs) =>
           UNCHANGED <<pc, raised, browser, project_names,
                       project_names_index, project_data>>]_vars

\* The handler's call raised while main was polling the address, after a
\* first dialog before the enumeration; main is still polling.
C20_HandlerErrorDuringExtraction ==
    /\ pc = "poll_address"
    /\ raised = "none"
    /\ dialogs = 2
    /\ dialog_error

\* The step that follows the overlay resolver at each of its call sites.
AfterOverlay ==
    [overlay_initial |-> "enumerate", overlay_reload |-> "scan",
     overlay_detail |-> "wait_project_name"]

\* C18: at each of its three call sites the overlay resolver, whether it
\* finds no overlay, dismisses one, or has is_visible, click or wait_for
\* raise an automation error, goes on to the next step of main with no
\* exception raised and with the cursor, the candidate list and the
\* accumulated records unchanged.
C18_OverlayNeverFails ==
    [][(pc \in DOMAIN AfterOverlay /\ pc' # pc) =>
           /\ pc' = AfterOverlay[pc]
           /\ raised' = "none"
           /\ UNCHANGED <<project_names, project_names_index, project_data>>]_vars

\* After a first record, the click on the overlay of the second candidate's
\* reload raised an automation error and main is at the scan of the cards.
C18_ClickErrorPassedOver ==
    /\ pc = "scan"
    /\ overlay = "click_error"
    /\ raised = "none"
    /\ Len(project_data) = 1
    /\ project_names_index = 1

\* The positions of main inside the field extraction of a candidate.
ExtractionPoints ==
    {"poll_project_name", "wait_rera_regd_no", "poll_rera_regd_no",
     "click_promoter_tab", "wait_promoter_card", "poll_promoter_name",
     "poll_address", "poll_gst_no", "validate"}

\* C16: whenever main extracts fields, the attempt has reloaded the list,
\* resolved overlays, scanned the cards, clicked 'View Details' and awaited
\* the navigation, and resolved overlays again, in this order; and the
\* click is made only on card handles located after the last load of the
\* list page.
C16_NavigatorOrder ==
    /\ [](pc \in ExtractionPoints =>
             trail = <<"reload", "overlay", "scan", "click", "overlay",
                       "extract">>)
    /\ [][(pc = "click" /\ pc' # pc) => handles = "fresh"]_vars

\* The extraction of a second candidate has begun, its cards located after
\* its own reload.
C16_SecondCandidateExtracting ==
    /\ pc = "poll_project_name"
    /\ attempts = 2
    /\ handles = "stale"
    /\ trail[3] = "scan"

\* C17: every list extension reloads the list view, then resolves overlays,
\* and only then enumerates the entries.
C17_ExtensionClearsOverlays ==
    [][(pc = "extend" /\ pc' \notin {"extend", "except"})
           => trail' = <<"reload", "overlay", "enumerate">>]_vars

Last(seq) == seq[Len(seq)]

\* An attempt that ended with no card matched (no card text equal to the
\* candidate, or the matching card without 'View Details'), or with a failed
\* navigation.
AttemptAbandoned ==
    /\ pc = "advance"
    /\ Last(trail) \in {"scan", "nav_error"}

\* C14: the step that ends an attempt in 'not found' or in a navigation
\* failure, and the advance of the cursor that follows it, leave the
\* accumulated records unchanged and raise nothing to main's handlers; the
\* loop goes on with the cursor past the position the candidate was taken
\* at, and every candidate is taken at a position past the one before.
C14_AbandonedAttemptFrame ==
    [][/\ (pc \in {"scan", "click"} /\ pc' = "advance")
            => (project_data' = project_data /\ raised' = "none")
       /\ (AttemptAbandoned /\ pc' # pc)
            => /\ pc' = "loop"
               /\ raised' = "none"
               /\ project_data' = project_data
               /\ project_names_index' > taken_at
       /\ (pc = "take" /\ pc' = "reload")
            => project_names_index > taken_at]_vars

\* After the record of Alpha, the attempt at Beta has ended at the scan with
\* no card matched, the records as they were.
C14_BetaNotFound ==
    /\ AttemptAbandoned
    /\ trail = <<"reload", "overlay", "scan">>
    /\ project_names = <<Alpha, Beta, Gamma>>
    /\ project_name = Beta
    /\ ~found
    /\ Len(project_data) = 1

\* The sites whose detail views show the same non-placeholder texts at every
\* read.
StableSites == {"registry", "popups", "scenario"}

The(S) == CHOOSE x \in S : TRUE

\* The texts the detail view of a project of a stable site displays for the
\* five fields, the two-source fields by their first source in the DOM.
Displayed(s, name) ==
    ("Project Name" :> The(ProjectNameTexts(s, name)))
    @@ ("Rera Regd. No" :> The(RegdNoTexts(s, name)))
    @@ ("Promoter Name" :>
            IF CompanyObs(s, name) # {Absent} THEN The(CompanyObs(s, name))
            ELSE The(PropietoryObs(s, name)))
    @@ ("Address of the Promoter" :>
            IF RegisteredAddressObs(s, name) # {Absent}
            THEN The(RegisteredAddressObs(s, name))
            ELSE The(PermanentAddressObs(s, name)))
    @@ ("GST No." :> The(GstObs(s, name)))

\* C19: on a detail view that shows stable non-placeholder values, the
\* resolution of the five fields makes no poll wait and yields the displayed
\* texts, and a second resolution of the same project yields the same
\* record as the first.
C19_StableViewResolvesAtOnce ==
    site \in StableSites =>
        /\ waits = 0
        /\ pc = "validate" =>
               current_project_details = Displayed(site, project_name)
        /\ \A i, j \in DOMAIN project_data :
               project_data[i]["Project Name"] = project_data[j]["Project Name"]
                   => project_data[i] = project_data[j]

\* Alpha, listed twice after a reordered reload, was resolved twice: two
\* equal records, the promoter name from the company source.
C19_ResolvedTwice ==
    /\ site = "registry"
    /\ Len(project_data) = 2
    /\ project_data[1]["Project Name"] = Alpha
    /\ project_data[2] = project_data[1]
    /\ project_data[1]["Promoter Name"] = Acme

\* A source that is in the DOM and displays a value other than the
\* placeholder.
ShowsValue(obs) == obs \notin {Absent, <<>>} /\ Strip(obs) # Placeholder

\* A cycle of the poll of a two-source field.
TwoSourceCycle ==
    /\ pc \in {"poll_promoter_name", "poll_address"}
    /\ (pc' # pc \/ waits' # waits)

\* The text the cycle resolved the field to.
ResolvedText ==
    IF pc = "poll_promoter_name" THEN promoter_name_text' ELSE address_text'

\* C12: in every cycle of a two-source poll the primary source wins when it
\* shows a value, the secondary wins when the primary is absent or without
\* value and the secondary shows one; with no source showing a value the
\* field resolves to '--' at once, also in the first cycle, when neither
\* source is in the DOM, resolves to '--' when the ceiling is reached, and
\* otherwise the poll sleeps and goes on.
C12_PrioritySourceResolution ==
    [][TwoSourceCycle =>
         LET o == observed' IN
         IF ShowsValue(o[1]) THEN pc' # pc /\ ResolvedText = o[1]
         ELSE IF ShowsValue(o[2]) THEN pc' # pc /\ ResolvedText = o[2]
         ELSE IF o[3] = Absent /\ o[4] = Absent
              THEN pc' # pc /\ ResolvedText = Placeholder
         ELSE IF waits >= MaxPolls
              THEN pc' # pc /\ ResolvedText = Placeholder
         ELSE pc' = pc /\ waits' = waits + 1]_vars

\* In its first cycle the promoter name was resolved to the proprietor name
\* while the company name still showed '--'.
C12_SecondaryWins ==
    /\ pc = "poll_address"
    /\ waits = 0
    /\ observed[1] = Placeholder
    /\ observed[2] = Bob
    /\ promoter_name_text = Bob
    /\ ceiling_hit = {}

MandatoryFields ==
    {"Project Name", "Rera Regd. No", "Promoter Name",
     "Address of the Promoter"}

\* A mandatory field of the candidate holds '--' from a poll that ended at
\* its ceiling.
PlaceholderByCeiling ==
    \E f \in MandatoryFields \cap ceiling_hit :
        current_project_details[f] = Placeholder

\* C13: no record is accumulated with a mandatory field that is '--' only
\* because its poll ended at the ceiling: the validation of such a candidate
\* appends nothing.
C13_NoRecordFromTimeout ==
    [][(pc = "validate" /\ pc' # pc /\ PlaceholderByCeiling)
           => project_data' = project_data]_vars

\* A step that ends the poll of a field at its ceiling.
CeilingStep == ceiling_hit' \notin {ceiling_hit, {}}

\* The step that follows the poll of each field.
AfterPoll ==
    [poll_project_name |-> "wait_rera_regd_no",
     poll_rera_regd_no |-> "click_promoter_tab",
     poll_promoter_name |-> "poll_address",
     poll_address |-> "poll_gst_no",
     poll_gst_no |-> "validate"]

\* The field a poll position resolves, and the text it was resolved to.
PolledField ==
    [poll_project_name |-> "Project Name",
     poll_rera_regd_no |-> "Rera Regd. No",
     poll_promoter_name |-> "Promoter Name",
     poll_address |-> "Address of the Promoter",
     poll_gst_no |-> "GST No."]
PolledText == current_project_details'[PolledField[pc]]

\* The texts the sources of the field displayed in the cycle.
DisplayedTexts ==
    {observed'[i] : i \in DOMAIN observed'} \ {Absent}

\* C15 as stated: a poll that ends at its ceiling resolves the field to a
\* text the page displays at that time (up to surrounding whitespace), goes
\* on to the next field and raises nothing.
C15_TimeoutKeepsDisplayedText ==
    [][(CeilingStep /\ DisplayedTexts # {}) =>
           /\ pc' = AfterPoll[pc]
           /\ raised' = "none"
           /\ \E t \in DisplayedTexts : Strip(t) = Strip(PolledText)]_vars

\* C15, amended: a poll that ends at its ceiling goes on to the next field
\* and raises nothing; Project Name and Rera Regd. No resolve to the text
\* read from the page after the poll, Promoter Name, Address and GST No.
\* resolve to '--' whatever their sources display.
C15_TimeoutResolvesAndGoesOn ==
    [][CeilingStep =>
           /\ pc' = AfterPoll[pc]
           /\ raised' = "none"
           /\ PolledText =
                  IF pc \in {"poll_project_name", "poll_rera_regd_no"}
                  THEN observed'[2] ELSE Placeholder]_vars

\* The GST No. poll ended at its ceiling with a blank text displayed: the
\* field is '--' and main is at the validation.
C15_BlankGstTimedOut ==
    /\ pc = "validate"
    /\ "GST No." \in ceiling_hit
    /\ observed = << <<" ">> >>
    /\ current_project_details["GST No."] = Placeholder
    /\ raised = "none"

\* C21: whenever main is about to read project_names[project_names_index]
\* for a new attempt, the cursor is less than the length of the candidate
\* list.
C21_CursorInsideList ==
    pc = "take" => project_names_index < Len(project_names)

\* The validation step of a candidate.
ValidationStep == pc = "validate" /\ pc' # pc

\* The candidate's Promoter Name or Address is empty after stripping.
BlankCandidate ==
    Strip(promoter_name_text) = <<>> \/ Strip(address_text) = <<>>

\* C22: the validation drops the candidate exactly when its Promoter Name
\* or Address is empty after stripping; every other candidate, also one
\* whose Promoter Name or Address resolved to '--', is appended with the
\* stripped texts, a '--' as '--'.
C22_PlaceholderNotBlank ==
    [][ValidationStep =>
         IF BlankCandidate THEN project_data' = project_data
         ELSE /\ Len(project_data') = Len(project_data) + 1
              /\ SubSeq(project_data', 1, Len(project_data)) = project_data
              /\ Last(project_data')["Promoter Name"] =
                     Strip(promoter_name_text)
              /\ Last(project_data')["Address of the Promoter"] =
                     Strip(address_text)
              /\ promoter_name_text = Placeholder
                     => Last(project_data')["Promoter Name"] = Placeholder
              /\ address_text = Placeholder
                     => Last(project_data')["Address of the Promoter"]
                            = Placeholder]_vars

\* A record was appended whose Promoter Name is '--' because neither source
\* was in the DOM and whose Address is '--' because its poll ended at the
\* ceiling.
C22_PlaceholderRecordAppended ==
    /\ pc = "advance"
    /\ project_data # <<>>
    /\ Last(project_data) = current_project_details
    /\ current_project_details["Promoter Name"] = Placeholder
    /\ current_project_details["Address of the Promoter"] = Placeholder
    /\ ceiling_hit = {"Address of the Promoter"}

====
